---- MODULE Spec2Model ----
(***************************************************************************)
(* Model of gulpfile.js, the canvas-gauges development task runner.        *)
(*                                                                         *)
(* The gulpfile registers eleven tasks with gulp 3 (gulp.task with a       *)
(* prerequisite array) and starts tasks with gulp.start.  The state is the *)
(* task runner's bookkeeping for those tasks (done / running marks, the    *)
(* current sequence, the running flag), the position of every task action  *)
(* that is asynchronous, the build artifacts on disk and the process.      *)
(* One action stands for one callback of the gulpfile: everything a        *)
(* callback does synchronously, the task runner's reaction to a completion *)
(* signal included, is one step.                                           *)
(***************************************************************************)
EXTENDS Integers, Sequences, FiniteSets, TLC

\* ------------------------------------------------------------------ bounds
\* number of file-change events delivered to the watcher
MaxChanges == 2
\* number of further gulp.start calls made while a run is in progress (SpecConc)
MaxRestarts == 1

\* ------------------------------------------------------------------- tasks
Tasks ==
  {"help", "clean", "doc", "build", "watch", "gzip", "lint",
   "test:spec", "test:e2e", "test", "default"}

\* test:e2e declared as a prerequisite of test
DepWithE2e(t) ==
  CASE t = "build"     -> <<"clean">>
    [] t = "watch"     -> <<"build">>
    [] t = "gzip"      -> <<"build">>
    [] t = "test:spec" -> <<"lint">>
    [] t = "test"      -> <<"test:spec", "test:e2e">>
    [] t = "default"   -> <<"help">>
    [] OTHER           -> <<>>

\* the prerequisite array of every gulp.task call
Dep(t) ==
  CASE t = "build"     -> <<"clean">>
    [] t = "watch"     -> <<"build">>
    [] t = "gzip"      -> <<"build">>
    [] t = "test:spec" -> <<"lint">>
    [] t = "test"      -> <<"test:spec">>
    [] t = "default"   -> <<"help">>
    [] OTHER           -> <<>>

\* the paths the clean task deletes, in the order of its nested callbacks
CleanPaths == <<"gauge.js", "gauge.min.js", "gauge.min.js.map", "gauge.min.js.gz">>

\* Tasks whose action has completed when the function returns: it takes no
\* callback and returns neither a stream nor a promise.
SyncTasks == {"doc", "watch", "test", "default"}

Range(s) == {s[i] : i \in 1..Len(s)}

\* ------------------------------------------------------------------- text
\* A text is a sequence of characters, each a one-character string; "LF", "CR",
\* "ESC" (\u001b), "CSI" (\u009b) and "TAB" stand for the control characters.
ReportGreen ==
  <<"LF", "=", "=", "=", "=", "LF", "S", "t", "a", "t", "e", "m", "e", "n",
    "t", "s", " ", " ", " ", ":", " ", "9", "2", ".", "5", "%", " ", "(",
    " ", "3", "7", "0", "/", "4", "0", "0", " ", ")", "LF", "B", "r", "a",
    "n", "c", "h", "e", "s", " ", " ", " ", " ", " ", ":", " ", "8", "0",
    "%", " ", "(", " ", "8", "/", "1", "0", " ", ")", "LF">>

ReportRed ==
  <<"LF", "=", "=", "=", "=", "LF", "S", "t", "a", "t", "e", "m", "e", "n",
    "t", "s", " ", " ", " ", ":", " ", "8", "5", ".", "0", "%", " ", "(",
    " ", "3", "4", "0", "/", "4", "0", "0", " ", ")", "LF">>

ReportBoundary ==
  <<"ESC", "[", "1", "m", "CR", "LF", "=", "=", "=", "=", "ESC", "[", "0",
    "m", "CR", "LF", "ESC", "[", "3", "2", ";", "1", "m", "S", "t", "a", "t",
    "e", "m", "e", "n", "t", "s", " ", ":", " ", "9", "0", "%", " ", "(",
    " ", "9", "/", "1", "0", " ", ")", "ESC", "[", "0", "m", "CR", "LF">>

ReportUnknown ==
  <<"LF", "=", "=", "=", "=", "LF", "S", "t", "a", "t", "e", "m", "e", "n",
    "t", "s", " ", " ", " ", ":", " ", "U", "n", "k", "n", "o", "w", "n",
    "%", " ", "(", " ", "0", "/", "0", " ", ")", "LF">>

ReportShifted ==
  <<"=", "=", "=", "=", "LF", "S", "t", "a", "t", "e", "m", "e", "n", "t",
    "s", " ", " ", " ", ":", " ", "9", "5", "%", " ", "(", " ", "1", "9",
    "/", "2", "0", " ", ")", "LF", "B", "r", "a", "n", "c", "h", "e", "s",
    " ", " ", " ", " ", " ", ":", " ", "5", "0", "%", " ", "(", " ", "1",
    "/", "2", " ", ")", "LF">>

ReportTwoLines ==
  <<"LF", "=", "=", "=", "=">>

ReportNoColon ==
  <<"LF", "=", "=", "=", "=", "LF", "N", "o", " ", "c", "o", "v", "e", "r",
    "a", "g", "e", " ", "i", "n", "f", "o", "r", "m", "a", "t", "i", "o",
    "n", " ", "w", "a", "s", " ", "c", "o", "l", "l", "e", "c", "t", "e",
    "d", "LF">>

ReportColonTwice ==
  <<"LF", "=", "=", "=", "=", "LF", "S", "t", "a", "r", "t", "e", "d", " ",
    ":", " ", "1", "2", ":", "3", "0", " ", "(", " ", "U", "T", "C", " ",
    ")", "LF">>

ReportNoParen ==
  <<"LF", "=", "=", "=", "=", "LF", "L", "i", "n", "e", "s", " ", ":", " ",
    "7", "%", "5", "%", "LF">>

ReportGreenOther ==
  <<"#", " ", "c", "o", "v", "e", "r", "a", "g", "e", "LF", "-", "-", "LF",
    "S", "t", "a", "t", "e", "m", "e", "n", "t", "s", " ", " ", " ", ":",
    " ", "9", "2", ".", "5", "%", " ", "(", " ", "3", "7", "0", "/", "4",
    "0", "0", " ", ")", "LF", "L", "i", "n", "e", "s", " ", ":", " ", "1",
    "0", "%", " ", "(", " ", "1", "/", "1", "0", " ", ")">>

UrlPrefix ==
  <<"h", "t", "t", "p", "s", ":", "/", "/", "i", "m", "g", ".", "s", "h",
    "i", "e", "l", "d", "s", ".", "i", "o", "/", "b", "a", "d", "g", "e",
    "/", "c", "o", "v", "e", "r", "a", "g", "e", "-">>

UrlSuffix ==
  <<".", "s", "v", "g">>

Upper ==
  <<"A", "B", "C", "D", "E", "F", "G", "H", "I", "J", "K", "L", "M", "N",
    "O", "P", "Q", "R", "S", "T", "U", "V", "W", "X", "Y", "Z">>

Lower ==
  <<"a", "b", "c", "d", "e", "f", "g", "h", "i", "j", "k", "l", "m", "n",
    "o", "p", "q", "r", "s", "t", "u", "v", "w", "x", "y", "z">>

Reports ==
  {ReportGreen, ReportRed, ReportBoundary, ReportUnknown, ReportShifted,
   ReportTwoLines, ReportNoColon, ReportColonTwice, ReportNoParen,
   ReportGreenOther}

Digits == {"0", "1", "2", "3", "4", "5", "6", "7", "8", "9"}
DigitVal(c) == CHOOSE v \in 0..9 : <<"0", "1", "2", "3", "4", "5", "6", "7", "8", "9">>[v + 1] = c
WhiteSpace == {" ", "TAB", "LF", "CR"}

\* the three character classes of the escape-sequence pattern rx
RxIntro == {"ESC", "CSI"}
RxPrefix == {"[", "(", ")", "#", ";", "?"}
RxFinal ==
  Digits \cup {Upper[i] : i \in 1..15} \cup {"R", "Z", "c"}
         \cup {Lower[i] : i \in 6..14} \cup {"q", "r", "y", "=", ">", "<"}

Min(S) == CHOOSE x \in S : \A y \in S : x <= y
Max(S) == CHOOSE x \in S : \A y \in S : y <= x

\* the number of characters of class cls at t[i], t[i+1], .., at most max
RunLen(t, i, cls, max) ==
  LET stop == {k \in 0..max : k = max \/ i + k > Len(t) \/ t[i + k] \notin cls}
  IN Min(stop)

\* p, p-1, .., q as a sequence
Down(p, q) == [k \in 1..(p - q + 1) |-> p - k + 1]

\* the concatenation of ss[1], ss[2], ..
RECURSIVE Flat(_)
Flat(ss) == IF ss = <<>> THEN <<>> ELSE Head(ss) \o Flat(Tail(ss))

\* (?:;[0-9]{0,4})* from position q: the positions where it can end, the
\* greedy choice first
RECURSIVE RepEnds(_, _)
RepEnds(t, q) ==
  IF q <= Len(t) /\ t[q] = ";"
  THEN LET ms == Down(q + 1 + RunLen(t, q + 1, Digits, 4), q + 1)
       IN Flat([k \in 1..Len(ms) |-> RepEnds(t, ms[k])]) \o <<q>>
  ELSE <<q>>

\* (?:[0-9]{1,4}(?:;[0-9]{0,4})*)? from position p
GroupEnds(t, p) ==
  LET ns == Down(p + RunLen(t, p, Digits, 4), p + 1)
  IN Flat([k \in 1..Len(ns) |-> RepEnds(t, ns[k])]) \o <<p>>

\* the first of the positions qs that holds a final character, 0 when none does
FirstFinal(t, qs) ==
  LET ok == {k \in 1..Len(qs) : qs[k] <= Len(t) /\ t[qs[k]] \in RxFinal}
  IN IF ok = {} THEN 0 ELSE qs[Min(ok)]

\* the position of the last character of the match of rx that starts at i,
\* 0 when there is none
RxMatchEnd(t, i) ==
  IF t[i] \notin RxIntro THEN 0
  ELSE LET ps == Down(i + 1 + RunLen(t, i + 1, RxPrefix, Len(t)), i + 1)
       IN FirstFinal(t, Flat([k \in 1..Len(ps) |-> GroupEnds(t, ps[k])]))

\* .replace(rx, ''): from position i, the text up to the next match is kept
\* and the search goes on after the match
RECURSIVE StripFrom(_, _)
StripFrom(t, i) ==
  LET ms == {k \in i..Len(t) : RxMatchEnd(t, k) # 0}
  IN IF ms = {} THEN SubSeq(t, i, Len(t))
     ELSE SubSeq(t, i, Min(ms) - 1) \o StripFrom(t, RxMatchEnd(t, Min(ms)) + 1)

StripAnsi(t) == StripFrom(t, 1)

\* .split(c): the segments between the occurrences of c
Split(t, c) ==
  LET at   == {i \in 1..Len(t) : t[i] = c}
      n    == Cardinality(at)
      pos  == [k \in 1..n |-> CHOOSE i \in at : Cardinality({h \in at : h < i}) = k - 1]
      from == [k \in 1..(n + 1) |-> IF k = 1 THEN 1 ELSE pos[k - 1] + 1]
      to   == [k \in 1..(n + 1) |-> IF k = n + 1 THEN Len(t) ELSE pos[k] - 1]
  IN [k \in 1..(n + 1) |-> SubSeq(t, from[k], to[k])]

\* .split(/\r?\n/): a CR right before the LF belongs to the separator
DropCR(line, last) ==
  IF ~last /\ line # <<>> /\ line[Len(line)] = "CR"
  THEN SubSeq(line, 1, Len(line) - 1) ELSE line

SplitLines(t) ==
  LET ls == Split(t, "LF")
  IN [k \in 1..Len(ls) |-> DropCR(ls[k], k = Len(ls))]

\* .trim()
TrimLeft(t) == SubSeq(t, 1 + RunLen(t, 1, WhiteSpace, Len(t)), Len(t))

TrimRight(t) ==
  LET keep == {k \in 0..Len(t) : \A h \in (k + 1)..Len(t) : t[h] \in WhiteSpace}
  IN SubSeq(t, 1, Min(keep))

Trim(t) == TrimRight(TrimLeft(t))

\* Reading and extraction: "throws" when the file is missing, when the text
\* has no third line or the third line no second ':' segment
Missing == <<"ENOENT">>

ExtractOrDefault(report) ==
  LET ls == IF report = Missing THEN <<>> ELSE SplitLines(StripAnsi(report))
      cs == IF Len(ls) < 3 THEN <<>> ELSE Split(ls[3], ":")
  IN IF Len(cs) < 2 THEN <<"0", "%">> ELSE Trim(Split(cs[2], "(")[1])

ExtractSecondLine(report) ==
  IF report = Missing THEN "throws"
  ELSE LET ls == SplitLines(StripAnsi(report))
       IN IF Len(ls) < 2 THEN "throws"
          ELSE LET cs == Split(ls[2], ":")
               IN IF Len(cs) < 2 THEN "throws"
                  ELSE Trim(Split(cs[2], "(")[1])

Extract(report) ==
  IF report = Missing THEN "throws"
  ELSE LET ls == SplitLines(StripAnsi(report))
       IN IF Len(ls) < 3 THEN "throws"
          ELSE LET cs == Split(ls[3], ":")
               IN IF Len(cs) < 2 THEN "throws"
                  ELSE Trim(Split(cs[2], "(")[1])

\* parseFloat: white space, a sign, digits, a fraction.  Only the comparison
\* with 90 is needed, which the sign and the integer part decide.
RECURSIVE IntVal(_, _)
IntVal(ds, acc) == IF ds = <<>> THEN acc ELSE IntVal(Tail(ds), 10 * acc + DigitVal(Head(ds)))

ParseFloat(t) ==
  LET u    == TrimLeft(t)
      neg  == u # <<>> /\ Head(u) = "-"
      v    == IF u # <<>> /\ Head(u) \in {"-", "+"} THEN Tail(u) ELSE u
      n    == RunLen(v, 1, Digits, Len(v))
      frac == IF n < Len(v) /\ v[n + 1] = "." THEN RunLen(v, n + 2, Digits, Len(v)) ELSE 0
  IN [nan |-> n = 0 /\ frac = 0, neg |-> neg, int |-> IntVal(SubSeq(v, 1, n), 0)]

\* color = 'green'; if (parseFloat(coverage) < 90) color = 'red'
Color(cov) ==
  LET f == ParseFloat(cov) IN IF ~f.nan /\ (f.neg \/ f.int < 90) THEN "red" ELSE "green"

\* .replace('%', '%25') would replace the first occurrence only
EscapeFirst(t) ==
  LET at == {k \in 1..Len(t) : t[k] = "%"}
  IN IF at = {} THEN t
     ELSE SubSeq(t, 1, Min(at)) \o <<"2", "5">> \o SubSeq(t, Min(at) + 1, Len(t))

\* .replace(/%/g, '%25')
RECURSIVE Escape(_)
Escape(t) ==
  IF t = <<>> THEN <<>>
  ELSE (IF Head(t) = "%" THEN <<"%", "2", "5">> ELSE <<Head(t)>>) \o Escape(Tail(t))

ColorText(c) == IF c = "green" THEN <<"g", "r", "e", "e", "n">> ELSE <<"r", "e", "d">>

Url(cov, color) == UrlPrefix \o Escape(cov) \o <<"-">> \o ColorText(color) \o UrlSuffix

VARIABLES
  o,        \* task runner and task-action state touched by starting a task
  fs,       \* the files that exist, among the paths the gulpfile writes or deletes
  proc,     \* "alive", "exit0", "exit1" (process.exit) or "crashed" (uncaught error)
  cli,      \* the task named on the command line, "none" before the start
  travis,   \* process.env.TRAVIS as the 'end' handler read it: "unread", "set", "unset"
  startReturns, \* what new KarmaServer(..).start() returns: "undefined" or "handle"
  timer,    \* the 500 ms exit timer of test:e2e: "off" or "armed"
  fetch,    \* the badge request: "none", "pending", "streaming", "written"
  badge,    \* the report text read and the coverage string, color and url computed from it
  changes,  \* file-change events delivered so far
  restarts  \* concurrent gulp.start calls made so far (SpecConc)

vars == <<o, fs, proc, cli, travis, startReturns, timer, fetch, badge, changes, restarts>>

\* ----------------------------------------------------- the task runner
\* sequencify: prerequisites first, depth first, every name once
RECURSIVE Sequencer(_, _)
Sequencer(names, results) ==
  IF names = <<>> THEN results
  ELSE LET n  == Head(names)
           r1 == IF n \in Range(results) THEN results
                 ELSE Append(Sequencer(Dep(n), results), n)
       IN Sequencer(Tail(names), r1)

\* _resetSpecificTasks: the names and their prerequisites, whose done mark is deleted
RECURSIVE ResetClosure(_)
ResetClosure(names) ==
  IF names = <<>> THEN {}
  ELSE {Head(names)} \cup ResetClosure(Dep(Head(names))) \cup ResetClosure(Tail(names))

ReadyToRunTaskNoWait(st, t) == TRUE
\* _readyToRunTask: every prerequisite is done
ReadyToRunTask(st, t) == \A i \in 1..Len(Dep(t)) : st.done[Dep(t)[i]]

MayRunWhileRunning(st, t) == ~st.done[t] /\ ReadyToRunTask(st, t)
\* the guard of _runStep's loop body
MayRun(st, t) == ~st.done[t] /\ ~st.running[t] /\ ReadyToRunTask(st, t)

\* allDone
AllDone(st) == \A i \in 1..Len(st.seq) : st.done[st.seq[i]]

Log(st, ev, t) == [st EXCEPT !.trace = Append(@, <<ev, t>>)]

\* Orchestrator.stop: the run is over; with an error gulp's 'err' event is emitted
Stop(st, err) ==
  [st EXCEPT !.isRunning = FALSE,
             !.failed = @ \/ err,
             !.trace = Append(@, <<IF err THEN "abort" ELSE "stop", "-">>)]

\* _stopTask
StopTask(st, t, err) ==
  [st EXCEPT !.running[t] = FALSE,
             !.done[t] = TRUE,
             !.trace = Append(@, <<IF err THEN "fail" ELSE "done", t>>)]

\* what the action of task t does before it returns
TaskBody(st, t) ==
  CASE t = "clean"     -> [st EXCEPT !.cleanPc = 1]
    [] t = "build"     -> [st EXCEPT !.buildPc = "bundling", !.bundle = "none",
                                     !.stages = "none"]
    [] t = "watch"     -> [st EXCEPT !.watching = TRUE]
    [] t = "test:spec" -> [st EXCEPT !.karma = "running", !.server = startReturns]
    [] t = "test:e2e"  -> [st EXCEPT !.e2e = "running"]
    [] OTHER           -> st

RECURSIVE RunStepFrom(_, _), RunTask(_, _), Start(_, _, _)

\* _runTask: mark the task running and call its action.  The action of test
\* calls gulp.start('test:e2e'); a synchronous action completes at once and
\* its completion runs _runStep again.
RunTask(st, t) ==
  LET s1 == Log([st EXCEPT !.running[t] = TRUE], "start", t)
      s2 == IF t = "test" THEN Start(s1, <<"test:e2e">>, "chain")
            ELSE TaskBody(s1, t)
  IN IF t \in SyncTasks
     THEN RunStepFrom(StopTask(s2, t, FALSE), 1)
     ELSE s2

\* _runStep, from position i of the sequence
RunStepFrom(st, i) ==
  IF ~st.isRunning THEN st
  ELSE IF i > Len(st.seq)
       THEN IF AllDone(st) THEN Stop(st, FALSE) ELSE st
       ELSE LET t  == st.seq[i]
                s1 == IF MayRun(st, t) THEN RunTask(st, t) ELSE st
            IN RunStepFrom(s1, i + 1)

\* Orchestrator.start(names).  While a run is in progress the named tasks and
\* their prerequisites lose their done mark and the names are put in front of
\* the current sequence; otherwise every task is reset.  The trace is the
\* history of the run chain: it starts afresh when the runner was idle.
\* overlap records that the chain shares a task execution with another run:
\* a start was requested while it was in progress, or an action of an
\* earlier, aborted run was still in flight when it began.
Start(st, names, how) ==
  LET s1 == IF st.isRunning
            THEN [st EXCEPT !.done = [t \in Tasks |->
                                IF t \in ResetClosure(names) THEN FALSE ELSE @[t]],
                            !.overlap = @ \/ how # "chain",
                            !.trace = Append(@, <<how, names[1]>>)]
            ELSE [st EXCEPT !.done = [t \in Tasks |-> FALSE],
                            !.overlap = \E t \in Tasks : st.running[t],
                            !.failed = FALSE,
                            !.trace = << <<how, names[1]>> >>]
      nm == IF st.isRunning THEN names \o st.seq ELSE names
      s2 == [s1 EXCEPT !.seq = Sequencer(nm, <<>>), !.isRunning = TRUE]
  IN RunStepFrom(s2, 1)

\* the completion callback of _runTask, for an asynchronous task
Finish(st, t, err) ==
  LET s1 == StopTask(st, t, err)
  IN IF err THEN Stop(s1, TRUE) ELSE RunStepFrom(s1, 1)

\* ------------------------------------------------------------------- state
Init ==
  /\ o = [done      |-> [t \in Tasks |-> FALSE],
          running   |-> [t \in Tasks |-> FALSE],
          seq       |-> <<>>,
          isRunning |-> FALSE,
          failed    |-> FALSE,
          overlap   |-> FALSE,
          cleanPc   |-> 0,
          buildPc   |-> "idle",
          bundle    |-> "none",
          stages    |-> "none",
          watching  |-> FALSE,
          karma     |-> "idle",
          karmaExit |-> 0,
          server    |-> "unset",
          e2e       |-> "idle",
          trace     |-> <<>>]
  /\ fs \in SUBSET Range(CleanPaths)
  /\ proc = "alive"
  /\ cli = "none"
  /\ travis = "unread"
  /\ startReturns \in {"undefined", "handle"}
  /\ timer = "off"
  /\ fetch = "none"
  /\ badge = [report |-> <<>>, coverage |-> <<>>, color |-> "none", url |-> <<>>]
  /\ changes = 0
  /\ restarts = 0

\* ----------------------------------------------------------------- actions
\* `gulp T` on the command line
CliStart ==
  /\ proc = "alive" /\ cli = "none"
  /\ \E t \in Tasks :
       /\ cli' = t
       /\ o' = Start(o, <<t>>, "run")
  /\ UNCHANGED <<fs, proc, travis, startReturns, timer, fetch, badge, changes, restarts>>

\* the promise returned by usage(gulp) resolves
HelpDone ==
  /\ proc = "alive" /\ o.running["help"]
  /\ o' = Finish(o, "help", FALSE)
  /\ UNCHANGED <<fs, proc, cli, travis, startReturns, timer, fetch, badge, changes, restarts>>

\* the error the completion callback of clean receives from the last rimraf
RimrafLast(err) == err

\* the callback of the pending rimraf call of clean: the first three ignore
\* their argument, the fourth is the task's completion callback itself
RimrafDone ==
  /\ proc = "alive" /\ o.running["clean"] /\ o.cleanPc \in 1..4
  /\ \E err \in BOOLEAN :
       /\ fs' = IF err THEN fs ELSE fs \ {CleanPaths[o.cleanPc]}
       /\ o' = LET s1 == Log(o, "rimraf", CleanPaths[o.cleanPc])
               IN IF o.cleanPc < 4
                  THEN [s1 EXCEPT !.cleanPc = @ + 1]
                  ELSE Finish([s1 EXCEPT !.cleanPc = 0], "clean", RimrafLast(err))
  /\ UNCHANGED <<proc, cli, travis, startReturns, timer, fetch, badge, changes, restarts>>

OnBundleErrorFatal(st) ==
  Finish(Log([st EXCEPT !.buildPc = "idle"], "log", "bundle error"), "build", TRUE)
\* the 'error' handler of bundle(): gutil.log(err); this.emit('end')
OnBundleError(st) == Log(st, "log", "bundle error")

\* bundle() ends, or emits an error after no output at all or after some of
\* it; either way the stages piped after it see the end of their input
BundleDone ==
  /\ proc = "alive" /\ o.running["build"] /\ o.buildPc = "bundling"
  /\ \E out \in {"full", "truncated", "empty"} :
       o' = LET s1 == [o EXCEPT !.buildPc = "stages", !.bundle = out]
            IN IF out = "full" THEN s1 ELSE OnBundleError(s1)
  /\ UNCHANGED <<fs, proc, cli, travis, startReturns, timer, fetch, badge, changes, restarts>>

\* An 'error' event of the stream the task returned reaches the task runner
\* and fails the task; that of a stream piped before it has no listener and
\* is thrown.
StreamError(stage) == IF stage = "dest" THEN "fail" ELSE "throw"

\* the stages piped after bundle(): they end, and gulp.dest has written the
\* minified file and its map (nothing when no chunk came through); or one of
\* source .. sourcemaps.write emits an error; or gulp.dest does
StagesDone ==
  /\ proc = "alive" /\ o.running["build"] /\ o.buildPc = "stages"
  /\ \E res \in {"ok", "stageError", "destError"} :
       LET s1  == [o EXCEPT !.buildPc = "idle", !.stages = res]
           eff == IF res = "ok" THEN "ok"
                  ELSE StreamError(IF res = "destError" THEN "dest" ELSE "stage")
       IN /\ fs' = IF res = "ok" /\ o.bundle # "empty"
                   THEN fs \cup {"gauge.min.js", "gauge.min.js.map"} ELSE fs
          /\ proc' = IF eff = "throw" THEN "crashed" ELSE proc
          /\ o' = CASE eff = "ok" ->
                         Finish(Log(s1, "built", IF o.bundle = "empty" THEN "nothing"
                                                 ELSE "gauge.min.js"),
                                "build", FALSE)
                    [] eff = "fail" -> Finish(s1, "build", TRUE)
                    [] OTHER -> Log(s1, "throw", "build")
  /\ UNCHANGED <<cli, travis, startReturns, timer, fetch, badge, changes, restarts>>

\* the gzip pipeline ends (gulp.src of a missing file is an empty stream), or
\* gzip() or gulp.dest emits an error
GzipDone ==
  /\ proc = "alive" /\ o.running["gzip"]
  /\ \E res \in {"ok", "stageError", "destError"} :
       LET eff == IF res = "ok" THEN "ok"
                  ELSE StreamError(IF res = "destError" THEN "dest" ELSE "stage")
           has == "gauge.min.js" \in fs
       IN /\ fs' = IF res = "ok" /\ has THEN fs \cup {"gauge.min.js.gz"} ELSE fs
          /\ proc' = IF eff = "throw" THEN "crashed" ELSE proc
          /\ o' = CASE eff = "ok" ->
                         Finish(Log(o, "gzipped", IF has THEN "gauge.min.js.gz"
                                                  ELSE "nothing"),
                                "gzip", FALSE)
                    [] eff = "fail" -> Finish(o, "gzip", TRUE)
                    [] OTHER -> Log(o, "throw", "gzip")
  /\ UNCHANGED <<cli, travis, startReturns, timer, fetch, badge, changes, restarts>>

LintPasses(errors) == FALSE
\* eslint.failAfterError: the stream the task returns emits an error at its
\* end when a finding of error severity was reported
FailAfterError(errors) == errors

LintDone ==
  /\ proc = "alive" /\ o.running["lint"]
  /\ \E errors \in BOOLEAN :
       o' = Finish(Log(o, "lint", IF errors THEN "errors" ELSE "clean"),
                   "lint", FailAfterError(errors))
  /\ UNCHANGED <<fs, proc, cli, travis, startReturns, timer, fetch, badge, changes, restarts>>

\* the argument of done() in the Karma callback: the callback takes no
\* parameter and calls done without one
KarmaDoneArg(code) == FALSE

\* server && server.stop()
ServerStop(st) ==
  IF st.server = "handle"
  THEN Log([st EXCEPT !.karma = "stopped"], "stop", "server")
  ELSE [st EXCEPT !.karma = "finished"]

\* the callback given to KarmaServer is called with the exit code of the run
KarmaDone ==
  /\ proc = "alive" /\ o.running["test:spec"] /\ o.karma = "running"
  /\ \E code \in {0, 1} :
       o' = Finish(ServerStop(Log([o EXCEPT !.karmaExit = code], "karma",
                                  IF code = 0 THEN "passed" ELSE "failed")),
                   "test:spec", KarmaDoneArg(code))
  /\ UNCHANGED <<fs, proc, cli, travis, startReturns, timer, fetch, badge, changes, restarts>>

\* a file under lib/ changes: the watcher's callback calls gulp.start('build')
FileChange ==
  /\ proc = "alive" /\ o.watching /\ changes < MaxChanges
  /\ changes' = changes + 1
  /\ o' = Start(o, <<"build">>, "change")
  /\ UNCHANGED <<fs, proc, cli, travis, startReturns, timer, fetch, badge, restarts>>

\* run(gzip) is invoked once more while the run of gzip is in progress
RunAgain ==
  /\ proc = "alive" /\ cli = "gzip" /\ o.isRunning /\ restarts < MaxRestarts
  /\ restarts' = restarts + 1
  /\ o' = Start(o, <<cli>>, "again")
  /\ UNCHANGED <<fs, proc, cli, travis, startReturns, timer, fetch, badge, changes>>

OnE2eErrorContinue(p) == p
OnE2eErrorExit0(p) == "exit0"
\* .once('error', () => process.exit(1))
OnE2eError(p) == "exit1"

\* the wdio stream emits 'error'
E2eError ==
  /\ proc = "alive" /\ o.running["test:e2e"] /\ o.e2e = "running"
  /\ proc' = OnE2eError(proc)
  /\ o' = Log([o EXCEPT !.e2e = "errored"], "exit", "1")
  /\ UNCHANGED <<fs, cli, travis, startReturns, timer, fetch, badge, changes, restarts>>

ArmTimerNever(env, tm) == tm
\* if (process.env.TRAVIS) setTimeout(() => process.exit(0), 500)
ArmTimer(env, tm) == IF env = "set" THEN "armed" ELSE tm

\* the wdio stream emits 'end'.  The handler arms the exit timer when TRAVIS
\* is set, reads the report, computes the badge and issues the request; an
\* exception in it is not caught by anyone.  After the handler the listener
\* of the task runner sees the end of the stream the task returned.
E2eEnd ==
  /\ proc = "alive" /\ o.running["test:e2e"] /\ o.e2e = "running"
  /\ \E report \in Reports \cup {Missing}, env \in {"set", "unset"} :
       LET cov == Extract(report)
           s1  == Log([o EXCEPT !.e2e = "ended"], "badge", "read")
       IN /\ travis' = env
          /\ timer' = ArmTimer(env, timer)
          /\ IF cov = "throws"
             THEN /\ proc' = "crashed"
                  /\ o' = Log(s1, "throw", "badge")
                  /\ badge' = [badge EXCEPT !.report = report]
                  /\ UNCHANGED fetch
             ELSE /\ proc' = proc
                  /\ badge' = [report |-> report, coverage |-> cov,
                               color |-> Color(cov), url |-> Url(cov, Color(cov))]
                  /\ fetch' = "pending"
                  /\ o' = Finish(Log(Log(Log(Log(s1, "badge", "extract"),
                                             "badge", "classify"),
                                         "badge", "url"), "badge", "fetch"),
                                 "test:e2e", FALSE)
  /\ UNCHANGED <<fs, cli, startReturns, changes, restarts>>

\* setTimeout(() => process.exit(0), 500) fires
TimerFire ==
  /\ proc = "alive" /\ timer = "armed"
  /\ timer' = "fired"
  /\ proc' = "exit0"
  /\ o' = Log(o, "exit", "0")
  /\ UNCHANGED <<fs, cli, travis, startReturns, fetch, badge, changes, restarts>>

ResponseExitsAlways(isError) == TRUE
\* process.exit(0) is inside if (response instanceof Error)
ResponseExits(isError) == isError

\* the callback of http.get is called: with an Error, it is logged and the
\* process exits; otherwise the response is piped to test-coverage.svg
FetchResponse ==
  /\ proc = "alive" /\ fetch = "pending"
  /\ \E isError \in BOOLEAN :
       /\ proc' = IF ResponseExits(isError) THEN "exit0" ELSE proc
       /\ fetch' = IF isError THEN "failed" ELSE "streaming"
       /\ o' = LET s1 == IF isError THEN Log(o, "log", "fetch error")
                         ELSE Log(o, "badge", "response")
               IN IF ResponseExits(isError) THEN Log(s1, "exit", "0") ELSE s1
  /\ UNCHANGED <<fs, cli, travis, startReturns, timer, badge, changes, restarts>>

\* the request emits 'error' (no listener is registered on it)
RequestError ==
  /\ proc = "alive" /\ fetch = "pending"
  /\ proc' = "crashed"
  /\ fetch' = "failed"
  /\ o' = Log(o, "throw", "request")
  /\ UNCHANGED <<fs, cli, travis, startReturns, timer, badge, changes, restarts>>

\* the write stream emits 'finish': the body is on disk, process.exit(0)
WriteFinish ==
  /\ proc = "alive" /\ fetch = "streaming"
  /\ fetch' = "written"
  /\ fs' = fs \cup {"test-coverage.svg"}
  /\ proc' = "exit0"
  /\ o' = Log(Log(o, "badge", "persist"), "exit", "0")
  /\ UNCHANGED <<cli, travis, startReturns, timer, badge, changes, restarts>>

Next ==
  \/ CliStart
  \/ HelpDone
  \/ RimrafDone
  \/ BundleDone
  \/ StagesDone
  \/ GzipDone
  \/ LintDone
  \/ KarmaDone
  \/ FileChange
  \/ E2eError
  \/ E2eEnd
  \/ TimerFire
  \/ FetchResponse
  \/ RequestError
  \/ WriteFinish

Spec == Init /\ [][Next]_vars

NextConc == Next \/ RunAgain

SpecConc == Init /\ [][NextConc]_vars

\* An armed timer fires as long as the process is alive; nothing obliges the
\* remote service to answer.
SpecLive == Spec /\ WF_vars(TimerFire)

\* ------------------------------------------------------------ the history
Idx(ev, t) == {i \in DOMAIN o.trace : o.trace[i] = <<ev, t>>}
Count(ev, t) == Cardinality(Idx(ev, t))
\* the task the run chain was started for, and it with its prerequisites
Requested == o.trace[1][2]
Closure(t) == ResetClosure(<<t>>)
Started == cli # "none"

C2_NeverTwice ==
  cli = "gzip" => \A t \in {"clean", "build", "gzip"} : Count("start", t) <= 1

\* C2 amended: run(gzip) executes clean, build, gzip in this order, each
\* once, when no other run overlaps it.  A run(gzip) invoked while the chain
\* is in progress never starts a task that is still running (two starts of a
\* task are separated by its completion), but a task that has finished is
\* executed again, at most once more for every further invocation.
C2_OncePerRunNotPerChain ==
  cli = "gzip" =>
    /\ ~o.overlap =>
         /\ \A t \in {"clean", "build", "gzip"} : Count("start", t) <= 1
         /\ \A i \in Idx("start", "build") : \E h \in Idx("done", "clean") : h < i
         /\ \A i \in Idx("start", "gzip") : \E h \in Idx("done", "build") : h < i
    /\ \A t \in Tasks : \A i, j \in Idx("start", t) :
         i < j => \E k \in (i + 1)..(j - 1) : o.trace[k] \in {<<"done", t>>, <<"fail", t>>}
    /\ \A t \in Tasks : Count("start", t) <= 1 + Count("again", "gzip")

\* run(gzip) was invoked again while build was running: clean runs a second
\* time, next to the build it was a prerequisite of
C2_Witness ==
  /\ cli = "gzip" /\ Count("again", "gzip") = 1
  /\ Count("start", "clean") = 2 /\ Count("start", "build") = 1
  /\ o.running["clean"] /\ o.running["build"]

\* C3: when lint has reported a finding of error severity, the lint task has
\* failed, the run is over and none of test:spec, test and test:e2e has been
\* started in it.
C3_LintGate ==
  Count("lint", "errors") > 0 =>
    /\ Count("fail", "lint") = 1
    /\ ~o.isRunning /\ o.failed
    /\ \A t \in {"test:spec", "test", "test:e2e"} : Count("start", t) = 0 /\ ~o.running[t]

C3_Witness == cli = "test" /\ Count("lint", "errors") = 1 /\ Count("fail", "lint") = 1

\* C4 as stated: when the unit-test run has reported failures, test:spec has
\* failed, neither test nor test:e2e has been started and the process is alive.
C4_SpecGate ==
  Count("karma", "failed") > 0 =>
    /\ Count("fail", "test:spec") = 1
    /\ Count("start", "test") = 0 /\ Count("start", "test:e2e") = 0
    /\ proc = "alive"

\* C5 as stated: whenever test:spec has signalled completion, the server it
\* started was stopped before.
C5_StopBeforeDone ==
  \A j \in Idx("done", "test:spec") \cup Idx("fail", "test:spec") :
    \E i \in Idx("stop", "server") : i < j

\* C6: when the end-to-end stream has emitted an error the process has exited
\* with code 1, the report was not read, no request was issued and
\* test-coverage.svg was not written.
C6_ErrorExitsWithoutBadge ==
  o.e2e = "errored" =>
    /\ proc = "exit1"
    /\ fetch = "none" /\ badge.color = "none"
    /\ \A i \in DOMAIN o.trace : o.trace[i][1] # "badge"
    /\ "test-coverage.svg" \notin fs

C6_Witness == cli = "test" /\ o.e2e = "errored" /\ Count("done", "test") = 1

\* the steps of the badge generator, in the order of the state machine
BadgeSteps == <<"read", "extract", "classify", "url", "fetch", "response", "persist">>
StepNo(x) == CHOOSE n \in 1..Len(BadgeSteps) : BadgeSteps[n] = x
BadgeInOrder ==
  \A i, j \in DOMAIN o.trace :
    (i < j /\ o.trace[i][1] = "badge" /\ o.trace[j][1] = "badge")
      => StepNo(o.trace[i][2]) < StepNo(o.trace[j][2])

\* C7 as stated: after a completion event, when the fetch did not fail, the
\* process has not terminated unless test-coverage.svg is completely written.
C7_NoExitBeforePersist ==
  (o.e2e = "ended" /\ proc = "exit0" /\ fetch # "failed") => fetch = "written"

\* C7 amended: the badge steps occur in the order of the state machine, and
\* on the non-error fetch path the process terminates before the body is
\* completely written only by the exit timer, which is armed only when TRAVIS
\* is set: with TRAVIS unset termination always follows the persist step.
C7_ExitBeforePersistOnlyByTimer ==
  /\ BadgeInOrder
  /\ (o.e2e = "ended" /\ proc = "exit0" /\ fetch # "failed") =>
       \/ fetch = "written" /\ "test-coverage.svg" \in fs /\ timer # "fired"
       \/ travis = "set" /\ timer = "fired" /\ fetch \in {"pending", "streaming"}
                 /\ "test-coverage.svg" \notin fs
  /\ timer # "off" => travis = "set"

\* TRAVIS is set and the timer ended the process while the body was streamed
C7_Witness ==
  /\ travis = "set" /\ o.e2e = "ended" /\ proc = "exit0"
  /\ timer = "fired" /\ fetch = "streaming"

\* C8 as stated: clean signals completion right after the attempt on the last
\* of its four paths, the attempts having been made in order, and the signal
\* never carries an error, so that in a run of build the build follows.
C8_CleanNeverFails ==
  /\ Count("fail", "clean") = 0
  /\ \A j \in Idx("done", "clean") :
       /\ j > 4
       /\ \A k \in 1..4 : o.trace[j - 5 + k] = <<"rimraf", CleanPaths[k]>>
       /\ (~o.overlap /\ Requested = "build") => o.trace[j + 1] = <<"start", "build">>

\* C9: when bundle() has emitted an error in the latest execution of build,
\* it has been logged and the stages after it have got an empty or truncated
\* stream; the error does not fail the build or end the process (another
\* task of an overlapping run may): unless a later stage fails, build
\* completes, and in a run of gzip or watch that task starts right after it.
C9_BundleErrorSwallowed ==
  (Idx("start", "build") # {} /\ o.bundle \in {"truncated", "empty"}) =>
    LET b == Max(Idx("start", "build"))
    IN /\ \E i \in Idx("log", "bundle error") : i > b
       /\ o.buildPc = "stages" => (o.running["build"] /\ (~o.overlap => proc = "alive"))
       /\ o.stages \in {"none", "ok"} =>
            \A i \in Idx("fail", "build") \cup Idx("throw", "build") : i < b
       /\ o.stages = "ok" =>
            \E i \in Idx("done", "build") :
              /\ i > b
              /\ (~o.overlap /\ Requested \in {"gzip", "watch"})
                   => o.trace[i + 1] = <<"start", Requested>>

C9_Witness ==
  /\ cli = "gzip" /\ o.bundle = "empty" /\ o.stages = "ok"
  /\ Count("log", "bundle error") = 1 /\ o.running["gzip"]

\* C10 as stated: when a stage after bundling has failed, build has signalled
\* failure, gzip has not been started, no gauge.min.js.gz has been written
\* and the process is alive, so that an established watcher still reacts to
\* the next file change.
C10_StageFailureFailsBuild ==
  o.stages = "stageError" =>
    /\ Count("fail", "build") = 1
    /\ Count("start", "gzip") = 0 /\ Count("gzipped", "gauge.min.js.gz") = 0
    /\ proc = "alive"

\* the artifact set
Artifacts == Range(CleanPaths)

\* C11 as stated: from every initial artifact set, when a run of build (clean,
\* then build) has ended with a complete bundle written, the artifact set is
\* exactly gauge.min.js and gauge.min.js.map; gauge.min.js.gz is written only
\* from a gauge.min.js that the latest execution of build has written; and a
\* run of clean ends without an error in the empty artifact set.
C11_CleanBuildArtifacts ==
  /\ (cli = "build" /\ ~o.isRunning /\ Count("done", "build") = 1 /\ o.bundle = "full")
       => fs \cap Artifacts = {"gauge.min.js", "gauge.min.js.map"}
  /\ \A i \in Idx("gzipped", "gauge.min.js.gz") :
       \E j \in Idx("built", "gauge.min.js") :
         j < i /\ \A k \in j..i : o.trace[k] # <<"start", "build">>
  /\ (cli = "clean" /\ ~o.isRunning)
       => (Count("fail", "clean") = 0 /\ fs \cap Artifacts = {})

\* C12 as stated: from every initial subset of the four paths, the one a
\* previous run of clean has left included, a run of clean ends in the empty
\* artifact set and completes without an error.
C12_CleanIdempotent ==
  \A j \in Idx("done", "clean") \cup Idx("fail", "clean") :
    (cli = "clean" /\ j = Len(o.trace) - 1)
      => (o.trace[j] = <<"done", "clean">> /\ fs \cap Artifacts = {} /\ ~o.failed)

\* C13: the process has exited with code 1 exactly when the end-to-end
\* stream has emitted an error; it has exited with code 0 only after the
\* stream's end, and then because the badge was persisted, the exit timer
\* fired or the response was an error; when the response was an error it
\* has been logged, the exit with code 0 follows it at once and nothing was
\* written to test-coverage.svg.
C13_ExitCodes ==
  /\ proc = "exit1" <=> o.e2e = "errored"
  /\ proc = "exit0" =>
       /\ o.e2e = "ended"
       /\ fetch = "written" \/ timer = "fired" \/ fetch = "failed"
       /\ o.trace[Len(o.trace)] = <<"exit", "0">>
  /\ Count("log", "fetch error") > 0 =>
       /\ proc = "exit0" /\ fetch = "failed"
       /\ o.trace[Len(o.trace) - 1] = <<"log", "fetch error">>
       /\ "test-coverage.svg" \notin fs /\ Count("badge", "persist") = 0
  /\ proc \in {"exit0", "exit1"} => Count("exit", "0") + Count("exit", "1") = 1

\* the response was an error: logged, exit code 0, no file
C13_Witness ==
  /\ proc = "exit0" /\ fetch = "failed" /\ timer = "off"
  /\ Count("log", "fetch error") = 1

\* C14 as stated: the color computed for the extracted string is green when
\* a number can be parsed from its prefix and that number is at least 90, and
\* red in every other case, the one where no number can be parsed included.
C14_GreenIffAtLeast90 ==
  badge.color # "none" =>
    LET f == ParseFloat(badge.coverage)
    IN IF ~f.nan /\ ~f.neg /\ f.int >= 90
       THEN badge.color = "green" ELSE badge.color = "red"

\* the line at index 2 of a report text, and the first position from `from`
\* on that holds a character of cs (one past the end when none does)
SummaryLine(r) == SplitLines(StripAnsi(r))[3]
FirstAt(line, cs, from) ==
  Min({k \in from..Len(line) : line[k] \in cs} \cup {Len(line) + 1})

\* C15 as stated: the extracted string is the text between the first ':' of
\* the line at index 2 and the first '(' after it, trimmed.
C15_BetweenColonAndParen ==
  badge.color # "none" =>
    LET l == SummaryLine(badge.report)
        c == FirstAt(l, {":"}, 1)
    IN badge.coverage = Trim(SubSeq(l, c + 1, FirstAt(l, {"("}, c + 1) - 1))

\* C15 amended: the extracted string is the text between the first ':' of the
\* line at index 2 (escape sequences stripped, lines split at LF or CRLF) and
\* the next ':' or '(' after it, or the end of the line, trimmed; the report
\* with the summary line "Statements   : 92.5% ( 370/400 )" yields "92.5%",
\* and a report with the same line at index 2 yields the same string whatever
\* its other lines are.
C15_BetweenColonAndNextSeparator ==
  badge.color # "none" =>
    LET l == SummaryLine(badge.report)
        c == FirstAt(l, {":"}, 1)
    IN /\ badge.coverage = Trim(SubSeq(l, c + 1, FirstAt(l, {":", "("}, c + 1) - 1))
       /\ badge.report = ReportGreen => badge.coverage = <<"9", "2", ".", "5", "%">>
       /\ badge.report = ReportBoundary => badge.coverage = <<"9", "0", "%">>
       /\ badge.report = ReportShifted => badge.coverage = <<"5", "0", "%">>
       /\ \A r \in Reports :
            (Len(SplitLines(StripAnsi(r))) >= 3 /\ SummaryLine(r) = l)
              => Extract(r) = badge.coverage

\* the summary line has a second ':' before its '(': the string ends there
C15_Witness ==
  /\ badge.report = ReportColonTwice /\ badge.coverage = <<"1", "2">>
  /\ fetch = "pending"

\* the number of '%' among the first k characters of p
PercentsBefore(p, k) == Cardinality({h \in 1..(k - 1) : p[h] = "%"})

\* C16: the url is the fixed prefix, the escaped percentage string, '-', the
\* color and '.svg'; in the escaped string every character of the percentage
\* string appears unchanged and in order, every '%' (not only the first)
\* followed by an inserted "25" and nothing else inserted; for "92.5%" the
\* url is https://img.shields.io/badge/coverage-92.5%25-green.svg.
C16_UrlEscapesEveryPercent ==
  badge.color # "none" =>
    LET p    == badge.coverage
        n    == Len(UrlPrefix)
        m    == Len(p) + 2 * PercentsBefore(p, Len(p) + 1)
        tail == <<"-">> \o ColorText(badge.color) \o <<".", "s", "v", "g">>
        u    == badge.url
    IN /\ Len(u) = n + m + Len(tail)
       /\ SubSeq(u, 1, n) = UrlPrefix
       /\ SubSeq(u, n + m + 1, Len(u)) = tail
       /\ \A k \in 1..Len(p) :
            LET q == n + k + 2 * PercentsBefore(p, k)
            IN /\ u[q] = p[k]
               /\ p[k] = "%" => (u[q + 1] = "2" /\ u[q + 2] = "5")
       /\ p = <<"9", "2", ".", "5", "%">> =>
            u = UrlPrefix \o <<"9", "2", ".", "5", "%", "2", "5", "-", "g", "r", "e",
                               "e", "n", ".", "s", "v", "g">>

\* a percentage string with two '%': both are escaped in the requested url
C16_Witness ==
  /\ badge.coverage = <<"7", "%", "5", "%">> /\ fetch = "pending"
  /\ badge.url = UrlPrefix \o <<"7", "%", "2", "5", "5", "%", "2", "5", "-", "r",
                                 "e", "d", ".", "s", "v", "g">>

\* the report file is missing, or its text has fewer than three lines or no
\* ':' on the line at index 2
Malformed(r) ==
  \/ r = Missing
  \/ Len(SplitLines(StripAnsi(r))) < 3
  \/ ":" \notin Range(SummaryLine(r))

\* C17: when the 'end' handler has read a missing or malformed report, the
\* process has ended with an uncaught error right after the read: nothing
\* was extracted, classified or requested, test-coverage.svg was not written
\* and the exit timer, if armed, has not fired.
C17_MalformedReportCrashes ==
  (o.e2e = "ended" /\ Malformed(badge.report)) =>
    /\ proc = "crashed"
    /\ o.trace[Len(o.trace)] = <<"throw", "badge">>
    /\ o.trace[Len(o.trace) - 1] = <<"badge", "read">>
    /\ fetch = "none" /\ badge.coverage = <<>> /\ badge.color = "none" /\ badge.url = <<>>
    /\ "test-coverage.svg" \notin fs
    /\ timer # "fired"

\* a report of two lines was read while TRAVIS is set
C17_Witness ==
  /\ badge.report = ReportTwoLines /\ proc = "crashed" /\ timer = "armed"
  /\ o.running["test:e2e"]

\* C18: in a run of test, test:e2e is started by the action of test, after
\* lint and then test:spec have completed and the unit-test result was
\* reported; test completes right after having started it, before any
\* outcome of test:e2e, and no outcome of test:e2e makes test or the run fail.
C18_E2eIsSecondary ==
  cli = "test" =>
    /\ \A i \in Idx("start", "test:e2e") :
         /\ \E a, b, c \in 1..i :
              /\ a < b /\ b < c
              /\ o.trace[a] = <<"done", "lint">>
              /\ o.trace[b][1] = "karma"
              /\ o.trace[c] = <<"done", "test:spec">>
         /\ i > 2 /\ o.trace[i - 2] = <<"start", "test">>
         /\ o.trace[i - 1] = <<"chain", "test:e2e">>
         /\ o.trace[i + 1] = <<"done", "test">>
    /\ Count("start", "test:e2e") <= 1
    /\ Count("fail", "test") = 0 /\ Count("fail", "test:e2e") = 0
    /\ o.e2e # "idle" => (o.done["test"] /\ ~o.running["test"] /\ ~o.failed)

\* test has completed while test:e2e is still running
C18_Witness ==
  /\ cli = "test" /\ o.e2e = "running" /\ o.running["test:e2e"]
  /\ o.done["test"] /\ o.isRunning

\* the run chain is over: nothing is running, nothing has failed
AtRest ==
  /\ proc = "alive" /\ ~o.isRunning /\ ~o.failed
  /\ \A t \in Tasks : ~o.running[t]

\* the watcher is installed only after the initial build has completed
WatcherAfterBuild ==
  \A i \in Idx("start", "watch") : \E j \in 1..i : o.trace[j] = <<"done", "build">>

\* two executions of build never overlap
OneBuildInFlight ==
  \A i, j \in Idx("start", "build") :
    i < j => \E k \in (i + 1)..(j - 1) : o.trace[k] \in {<<"done", "build">>, <<"fail", "build">>}

\* C19 as stated: under watch the watcher is installed after the initial
\* build has completed, two executions of build never overlap, and every
\* change event is followed by an execution of build that starts when clean
\* has completed.
C19_EveryChangeRebuilds ==
  cli = "watch" =>
    /\ WatcherAfterBuild
    /\ OneBuildInFlight
    /\ AtRest =>
         \A i \in Idx("change", "build") :
           \E b \in (i + 1)..Len(o.trace) :
             o.trace[b] = <<"start", "build">> /\ o.trace[b - 1] = <<"done", "clean">>

Ended == o.e2e = "ended"
Terminated == proc # "alive"

\* C20: after the end-to-end stream has ended with TRAVIS set the process
\* eventually terminates, whether or not the request is answered; with
\* TRAVIS unset the process exits only in the response callback or the
\* 'finish' handler of the write, and it eventually terminates provided the
\* request is answered (or fails) and the write finishes.
C20_EventuallyTerminates ==
  /\ (Ended /\ travis = "set") ~> Terminated
  /\ []((Ended /\ travis = "unset" /\ proc = "exit0") => fetch \in {"failed", "written"})
  /\ (WF_vars(FetchResponse \/ RequestError) /\ WF_vars(WriteFinish))
       => (Ended ~> Terminated)

\* TRAVIS is set, no response has arrived and the timer has ended the process
C20_Witness ==
  /\ Ended /\ travis = "set" /\ fetch = "pending"
  /\ timer = "fired" /\ proc = "exit0"

====
